---- MODULE Spec2Model ----
(***************************************************************************)
(* Model of package kt (src/kt/kt.go): the Kyoto Tycoon client.            *)
(*                                                                         *)
(* Bytes are integers 0..255, a string or []byte is a sequence of bytes,   *)
(* a KV is a record [Key, Value], a []KV is a sequence of KVs.             *)
(***************************************************************************)
EXTENDS Integers, Sequences, FiniteSets, TLC

\* ------------------------------------------------------------------------
\* Bounds of the model
\* ------------------------------------------------------------------------
\* most records in an enumerated record list
MaxRecs == 2
\* most payload bytes (all keys and values together) in an enumerated list
MaxBytes == 3
\* callers using one Conn concurrently (each makes one call)
NumCallers == 2
\* most bytes of an enumerated response buffer handed to DecodeValues
MaxBuf == 4

\* the byte values fields are drawn from: TAB, LF (the two delimiters, both
\* outside 0x20-0x7e), 'A' (printable), 0xff (high bit set)
Bytes == {9, 10, 65, 255}

\* ------------------------------------------------------------------------
\* Byte constants of the wire format
\* ------------------------------------------------------------------------
TAB == 9
LF == 10
PERCENT == 37
UNDERSCORE == 95
LoPrintable == 32
HiPrintable == 126

IdentityEnc == 0
Base64Enc == 1

\* Content-Type strings (init(), kt.go:494-499), as byte sequences
\* "text/tab-separated-values"
CTIdentity ==
    <<116,101,120,116,47,116,97,98,45,115,101,112,97,114,97,116,101,100,
      45,118,97,108,117,101,115>>
\* "text/tab-separated-values; colenc=B"
CTBase64 == CTIdentity \o <<59,32,99,111,108,101,110,99,61,66>>
\* "text/tab-separated-values; colenc=U"
CTUrl == CTIdentity \o <<59,32,99,111,108,101,110,99,61,85>>

\* ------------------------------------------------------------------------
\* Sequence helpers
\* ------------------------------------------------------------------------
\* s[from..to], 1-based, empty when from > to
Slice(s, from, to) == [i \in 1..(to - from + 1) |-> s[from + i - 1]]

\* copy(buf[n:], s) / Encode(buf[n:], s): overwrite buf from offset n (0-based)
WriteAt(buf, n, s) ==
    [i \in 1..Len(buf) |-> IF i > n /\ i <= n + Len(s) THEN s[i - n] ELSE buf[i]]

\* position of the first d in s at or after index from, 0 when there is none
RECURSIVE IndexFrom(_, _, _)
IndexFrom(s, d, from) ==
    IF from > Len(s) THEN 0
    ELSE IF s[from] = d THEN from
    ELSE IndexFrom(s, d, from + 1)

\* ------------------------------------------------------------------------
\* encoding/base64, StdEncoding (RFC 4648 alphabet, '=' (61) padding)
\* ------------------------------------------------------------------------
EncodedLen(n) == ((n + 2) \div 3) * 4

b64Char(v) ==
    IF v < 26 THEN 65 + v
    ELSE IF v < 52 THEN 97 + (v - 26)
    ELSE IF v < 62 THEN 48 + (v - 52)
    ELSE IF v = 62 THEN 43
    ELSE 47

\* the decode map: 6-bit value of an alphabet byte, -1 for any other byte
b64Val(c) ==
    IF c >= 65 /\ c <= 90 THEN c - 65
    ELSE IF c >= 97 /\ c <= 122 THEN c - 97 + 26
    ELSE IF c >= 48 /\ c <= 57 THEN c - 48 + 52
    ELSE IF c = 43 THEN 62
    ELSE IF c = 47 THEN 63
    ELSE -1

RECURSIVE b64Encode(_)
b64Encode(src) ==
    IF Len(src) = 0 THEN <<>>
    ELSE IF Len(src) = 1 THEN
        LET val == src[1] * 65536
        IN <<b64Char(val \div 262144), b64Char((val \div 4096) % 64), 61, 61>>
    ELSE IF Len(src) = 2 THEN
        LET val == src[1] * 65536 + src[2] * 256
        IN <<b64Char(val \div 262144), b64Char((val \div 4096) % 64),
             b64Char((val \div 64) % 64), 61>>
    ELSE
        LET val == src[1] * 65536 + src[2] * 256 + src[3]
        IN <<b64Char(val \div 262144), b64Char((val \div 4096) % 64),
             b64Char((val \div 64) % 64), b64Char(val % 64)>>
           \o b64Encode(Slice(src, 4, Len(src)))

\* StdEncoding.Decode, keeping the bytes decoded before the first corrupt
\* quantum (the error is dropped by base64Decode)
RECURSIVE b64Decode(_)
b64Decode(src) ==
    IF Len(src) < 4 THEN <<>>
    ELSE
        LET v1 == b64Val(src[1])
            v2 == b64Val(src[2])
            v3 == b64Val(src[3])
            v4 == b64Val(src[4])
        IN IF v1 < 0 \/ v2 < 0 THEN <<>>
           ELSE IF v3 < 0 THEN
               IF src[3] = 61 /\ src[4] = 61
               THEN <<(v1 * 4 + v2 \div 16) % 256>>
               ELSE <<>>
           ELSE IF v4 < 0 THEN
               IF src[4] = 61
               THEN <<(v1 * 4 + v2 \div 16) % 256, (v2 * 16 + v3 \div 4) % 256>>
               ELSE <<>>
           ELSE <<(v1 * 4 + v2 \div 16) % 256, (v2 * 16 + v3 \div 4) % 256,
                  (v3 * 64 + v4) % 256>>
                \o b64Decode(Slice(src, 5, Len(src)))

\* ------------------------------------------------------------------------
\* TSVEncode (kt.go:601-660)
\* ------------------------------------------------------------------------
hasBinarySlice(b) ==
    \E i \in 1..Len(b) : b[i] < LoPrintable \/ b[i] > HiPrintable

hasBinary(b) ==
    \E i \in 1..Len(b) : b[i] < LoPrintable \/ b[i] > HiPrintable

\* first loop: hasbinary over every key and value
ListHasBinary(values) ==
    \E i \in 1..Len(values) :
        hasBinary(values[i].Key) \/ hasBinarySlice(values[i].Value)

\* first loop: bufsize, always computed with the base64 lengths
RECURSIVE BufSize(_)
BufSize(values) ==
    IF Len(values) = 0 THEN 0
    ELSE EncodedLen(Len(values[1].Key)) + 1
         + EncodedLen(Len(values[1].Value)) + 1
         + BufSize(Tail(values))

\* PutField choosing the encoding from the field alone
PutField_PerField(buf, n, field, hasbinary) ==
    IF hasBinarySlice(field)
    THEN [buf |-> WriteAt(buf, n, b64Encode(field)), n |-> n + EncodedLen(Len(field))]
    ELSE [buf |-> WriteAt(buf, n, field), n |-> n + Len(field)]

\* one field written at offset n: [buf, n] after the write
PutField(buf, n, field, hasbinary) ==
    IF hasbinary
    THEN [buf |-> WriteAt(buf, n, b64Encode(field)), n |-> n + EncodedLen(Len(field))]
    ELSE [buf |-> WriteAt(buf, n, field), n |-> n + Len(field)]

\* second loop, from record i on
RECURSIVE EncodeLoop(_, _, _, _, _)
EncodeLoop(values, i, buf, n, hasbinary) ==
    IF i > Len(values) THEN [buf |-> buf, n |-> n]
    ELSE
        LET k == PutField(buf, n, values[i].Key, hasbinary)
            kt == WriteAt(k.buf, k.n, <<TAB>>)
            v == PutField(kt, k.n + 1, values[i].Value, hasbinary)
            vn == WriteAt(v.buf, v.n, <<LF>>)
        IN EncodeLoop(values, i + 1, vn, v.n + 1, hasbinary)

\* TSVEncode: [buf, enc, n]; buf is the whole make([]byte, bufsize) buffer
\* that is returned, n the number of bytes the second loop wrote
TSVEncode(values) ==
    LET hasbinary == ListHasBinary(values)
        zero == [i \in 1..BufSize(values) |-> 0]
        out == EncodeLoop(values, 1, zero, 0, hasbinary)
    IN [buf |-> out.buf,
        enc |-> IF hasbinary THEN Base64Enc ELSE IdentityEnc,
        n |-> out.n]

\* ------------------------------------------------------------------------
\* DecodeValues and the field decoders (kt.go:664-769)
\* ------------------------------------------------------------------------
\* A decodefunc yields [ok, b]: ok = FALSE is a run-time panic (index out of
\* range), b the decoded field.
identityDecode(b) == [ok |-> TRUE, b |-> b]

base64Decode(b) == [ok |-> TRUE, b |-> b64Decode(b)]

unhex(c) ==
    IF c >= 48 /\ c <= 57 THEN c - 48
    ELSE IF c >= 97 /\ c <= 102 THEN c - 97 + 10
    ELSE IF c >= 65 /\ c <= 70 THEN c - 65 + 10
    ELSE 0

\* urlDecode's loop from index i (1-based) with res the bytes written so far
RECURSIVE urlDecodeLoop(_, _, _)
urlDecodeLoop(b, i, res) ==
    IF i > Len(b) THEN [ok |-> TRUE, b |-> res]
    ELSE IF b[i] # PERCENT THEN urlDecodeLoop(b, i + 1, Append(res, b[i]))
    ELSE IF i + 2 > Len(b) THEN [ok |-> FALSE, b |-> <<>>]
    ELSE urlDecodeLoop(b, i + 3,
                       Append(res, (unhex(b[i + 1]) * 16 + unhex(b[i + 2])) % 256))

urlDecode(b) == urlDecodeLoop(b, 1, <<>>)

\* the switch on contenttype[len(contenttype)-1]: "B", "U", "s", or "?"
\* DecodeTag taking an unknown tag for plain TSV
DecodeTag_DefaultIdentity(contenttype) ==
    LET c == contenttype[Len(contenttype)]
    IN IF c = 66 THEN "B" ELSE IF c = 85 THEN "U" ELSE "s"

DecodeTag(contenttype) ==
    LET c == contenttype[Len(contenttype)]
    IN IF c = 66 THEN "B" ELSE IF c = 85 THEN "U" ELSE IF c = 115 THEN "s" ELSE "?"

\* decodef without the 'B' case
decodef_NoBase64(tag, b) ==
    IF tag = "U" THEN urlDecode(b) ELSE identityDecode(b)

decodef(tag, b) ==
    IF tag = "B" THEN base64Decode(b)
    ELSE IF tag = "U" THEN urlDecode(b)
    ELSE identityDecode(b)

\* DecodeLoop dropping a value that no LF ends
RECURSIVE DecodeLoop_DropUnterminated(_, _, _, _)
DecodeLoop_DropUnterminated(buf, pos, tag, result) ==
    LET t == IndexFrom(buf, TAB, pos)
        nl == IndexFrom(buf, LF, t + 1)
    IN IF t = 0 \/ nl = 0 THEN [kind |-> "ok", vals |-> result, isnil |-> FALSE]
       ELSE LET key == decodef(tag, Slice(buf, pos, t - 1))
                val == decodef(tag, Slice(buf, t + 1, nl - 1))
            IN IF ~key.ok \/ ~val.ok
               THEN [kind |-> "panic", vals |-> <<>>, isnil |-> TRUE]
               ELSE DecodeLoop_DropUnterminated(
                        buf, nl + 1, tag,
                        Append(result, [Key |-> key.b, Value |-> val.b]))

\* the for loop of DecodeValues, reading buf from index pos (1-based)
RECURSIVE DecodeLoop(_, _, _, _)
DecodeLoop(buf, pos, tag, result) ==
    LET t == IndexFrom(buf, TAB, pos)
    IN IF t = 0 THEN [kind |-> "ok", vals |-> result, isnil |-> FALSE]
       ELSE
         LET key == decodef(tag, Slice(buf, pos, t - 1))
             nl == IndexFrom(buf, LF, t + 1)
             \* ReadBytes('\n'): up to and including LF, or the rest at EOF
             value == IF nl = 0 THEN Slice(buf, t + 1, Len(buf))
                      ELSE Slice(buf, t + 1, nl)
             fieldlen == IF Len(value) > 0 /\ value[Len(value)] # LF
                         THEN Len(value) ELSE Len(value) - 1
             val == IF Len(value) > 0
                    THEN decodef(tag, Slice(value, 1, fieldlen))
                    ELSE [ok |-> TRUE, b |-> <<>>]
             result2 == IF Len(value) > 0
                        THEN Append(result, [Key |-> key.b, Value |-> val.b])
                        ELSE result
         IN IF ~key.ok \/ ~val.ok THEN [kind |-> "panic", vals |-> <<>>, isnil |-> TRUE]
            ELSE IF nl = 0 THEN [kind |-> "ok", vals |-> result2, isnil |-> FALSE]
            ELSE DecodeLoop(buf, nl + 1, tag, result2)

\* DecodeValues looking at the Content-Type before the length of buf
DecodeValues_TagFirst(buf, contenttype) ==
    IF Len(contenttype) = 0 THEN [kind |-> "panic", vals |-> <<>>, isnil |-> TRUE]
    ELSE IF DecodeTag(contenttype) = "?" THEN [kind |-> "error", vals |-> <<>>, isnil |-> TRUE]
    ELSE IF Len(buf) = 0 THEN [kind |-> "ok", vals |-> <<>>, isnil |-> TRUE]
    ELSE DecodeLoop(buf, 1, DecodeTag(contenttype), <<>>)

\* DecodeValues: kind "ok" (vals, isnil: the nil list), "error" (the
\* unknown Content-Type Error), "panic" (index out of range)
DecodeValues(buf, contenttype) ==
    IF Len(buf) = 0 THEN [kind |-> "ok", vals |-> <<>>, isnil |-> TRUE]
    ELSE IF Len(contenttype) = 0 THEN [kind |-> "panic", vals |-> <<>>, isnil |-> TRUE]
    ELSE IF DecodeTag(contenttype) = "?" THEN [kind |-> "error", vals |-> <<>>, isnil |-> TRUE]
    ELSE DecodeLoop(buf, 1, DecodeTag(contenttype), <<>>)

\* ------------------------------------------------------------------------
\* Inputs of the codec: record lists of at most nrec records whose fields
\* hold at most budget bytes in all
\* ------------------------------------------------------------------------
SeqsUpTo(S, n) == UNION {[1..m -> S] : m \in 0..n}

RECURSIVE RecordLists(_, _)
RecordLists(nrec, budget) ==
    IF nrec = 0 THEN {<<>>}
    ELSE {<<>>} \cup
         UNION { UNION { { <<[Key |-> k, Value |-> v]>> \o rest :
                             rest \in RecordLists(nrec - 1, budget - Len(k) - Len(v)) } :
                         v \in SeqsUpTo(Bytes, budget - Len(k)) } :
                 k \in SeqsUpTo(Bytes, budget) }

\* ------------------------------------------------------------------------
\* uint64 (Conn.retryCount) as four 16-bit limbs, most significant first
\* ------------------------------------------------------------------------
LimbBase == 2^16
Zero64 == <<0, 0, 0, 0>>
Max64 == <<LimbBase - 1, LimbBase - 1, LimbBase - 1, LimbBase - 1>>

\* x + d modulo 2^64, for a small natural d
AddUint64(x, d) ==
    LET s4 == x[4] + d
        s3 == x[3] + (s4 \div LimbBase)
        s2 == x[2] + (s3 \div LimbBase)
        s1 == x[1] + (s2 \div LimbBase)
    IN <<s1 % LimbBase, s2 % LimbBase, s3 % LimbBase, s4 % LimbBase>>

Less64(x, y) ==
    \E i \in 1..4 : x[i] < y[i] /\ \A j \in 1..(i - 1) : x[j] = y[j]

\* ------------------------------------------------------------------------
\* State
\* ------------------------------------------------------------------------
VARIABLES
    values,     \* codec: the []KV handed to TSVEncode
    wire,       \* codec: what TSVEncode returned, [buf, enc, n]
    decoded,    \* codec: what DecodeValues returned for wire.buf
    cpc,        \* codec: "input", "encoded", "decoded"; "received", "parsed"
    contenttype,\* codec: the Content-Type of a response handed to DecodeValues
    retryCount, \* Conn.retryCount
    count0,     \* retryCount when the callers started (history)
    idle,       \* Conn.transport holds idle pooled connections
    tracer,     \* opentracing.GlobalTracer() writes a carrier entry on Inject
    hdr,        \* the package-level http.Header maps: template -> the call
                \* whose span context the map's tracer entry holds (0: none)
    crashed,    \* the runtime stopped the process (fatal error or panic)
    call,       \* per caller: the call in progress
    kmap        \* per caller: the map handed to GetBulk / GetBulkBytes

codecVars == <<values, wire, decoded, cpc, contenttype>>
connVars == <<retryCount, count0, idle, tracer, hdr, crashed, call, kmap>>
vars == <<values, wire, decoded, cpc, contenttype,
          retryCount, count0, idle, tracer, hdr, crashed, call, kmap>>

\* map[string][]byte: a function from keys to [nil, b]; nil is the nil slice
NilVal == [nil |-> TRUE, b |-> <<>>]
Val(b) == [nil |-> FALSE, b |-> b]
EmptyMap == [k \in {} |-> NilVal]

\* a response as the transport delivers it: status, body bytes, Content-Type,
\* readErr (ioutil.ReadAll failed); shape and held record what the server
\* meant: "rest", "error", or "held" with the records it holds
NoResp ==
    [code |-> 0, body |-> <<>>, ct |-> <<>>, readErr |-> FALSE,
     shape |-> "none", held |-> EmptyMap]

Callers == 1..NumCallers
Templates == {"emptyHeader", "identityheaders", "base64headers"}

NoWire == [buf |-> <<>>, enc |-> IdentityEnc, n |-> 0]
NoDecoded == [kind |-> "none", vals |-> <<>>, isnil |-> TRUE]
NoResult == [err |-> "none", code |-> 0, body |-> <<>>, num |-> 0, list |-> <<>>]

\* a caller that has not called yet; keys0 is the map as the caller handed
\* it to the operation (history)
IdleCall ==
    [pc |-> "idle", op |-> "none", tmpl |-> "emptyHeader", attempt |-> 0,
     t |-> "none", pending |-> 0, cause1 |-> "none", rterr |-> FALSE,
     applied |-> 0, resp |-> NoResp,
     result |-> NoResult,
     keys0 |-> EmptyMap]

CodecIdle ==
    /\ values = <<>>
    /\ wire = NoWire
    /\ decoded = NoDecoded
    /\ cpc = "off"
    /\ contenttype = <<>>

ConnIdle ==
    /\ retryCount = Zero64
    /\ count0 = Zero64
    /\ idle = FALSE
    /\ tracer = FALSE
    /\ hdr = [t \in Templates |-> 0]
    /\ crashed = FALSE
    /\ call = [p \in Callers |-> IdleCall]
    /\ kmap = [p \in Callers |-> EmptyMap]

\* the Content-Type a peer sets for an encoding (doRPC, kt.go:516-519)
ContentTypeOf(enc) == IF enc = Base64Enc THEN CTBase64 ELSE CTIdentity

InitCodec ==
    /\ values \in RecordLists(MaxRecs, MaxBytes)
    /\ wire = NoWire
    /\ decoded = NoDecoded
    /\ cpc = "input"
    /\ contenttype = <<>>
    /\ ConnIdle

\* body, enc := TSVEncode(values)
Encode ==
    /\ cpc = "input"
    /\ wire' = TSVEncode(values)
    /\ cpc' = "encoded"
    /\ UNCHANGED <<values, decoded, contenttype>>
    /\ UNCHANGED connVars

\* DecodeValues(body, <the Content-Type for enc>)
Decode ==
    /\ cpc = "encoded"
    /\ decoded' = DecodeValues(wire.buf, ContentTypeOf(wire.enc))
    /\ cpc' = "decoded"
    /\ UNCHANGED <<values, wire, contenttype>>
    /\ UNCHANGED connVars

NextCodec == Encode \/ Decode

SpecCodec == InitCodec /\ [][NextCodec]_vars

\* ------------------------------------------------------------------------
\* DecodeValues on the responses a peer may send: any buffer, any
\* Content-Type
\* ------------------------------------------------------------------------
\* the bytes of an enumerated buffer: TAB, LF, '%', '4', 'A'
DecBytes == {TAB, LF, PERCENT, 52, 65}

\* "text/html"
CTHtml == <<116, 101, 120, 116, 47, 104, 116, 109, 108>>

\* no Content-Type header (Header.Get gives ""), the three of the protocol,
\* the bare tag "s", and two the protocol does not know
ContentTypes == {<<>>, CTIdentity, CTBase64, CTUrl, <<115>>, CTHtml, <<66, 59>>}

\* every short buffer, and the base64 wire form of the one-record lists
Buffers ==
    SeqsUpTo(DecBytes, MaxBuf)
    \cup {TSVEncode(L).buf : L \in {M \in RecordLists(1, 2) : ListHasBinary(M)}}

InitDecode ==
    /\ values = <<>>
    /\ \E b \in Buffers : wire = [buf |-> b, enc |-> IdentityEnc, n |-> Len(b)]
    /\ contenttype \in ContentTypes
    /\ decoded = NoDecoded
    /\ cpc = "received"
    /\ ConnIdle

\* m, err := DecodeValues(resultBody, resp.Header.Get("Content-Type"))
DecodeResponse ==
    /\ cpc = "received"
    /\ decoded' = DecodeValues(wire.buf, contenttype)
    /\ cpc' = "parsed"
    /\ UNCHANGED <<values, wire, contenttype>>
    /\ UNCHANGED connVars

NextDecode == DecodeResponse

SpecDecode == InitDecode /\ [][NextDecode]_vars

\* ------------------------------------------------------------------------
\* Operation layer: status mapping (kt.go:250-409) and the dispatchers'
\* tails (doRPC kt.go:524-536, doREST kt.go:804-809)
\* ------------------------------------------------------------------------
RestOps == {"Get", "GetBytes", "set", "remove"}
BulkOps == {"GetBulk", "GetBulkBytes"}
BulkWriteOps == {"setBulk", "removeBulk"}
\* the RPC operations that send no map: Count, MatchPrefix and newConn's
\* probe of /rpc/void
PlainRpcOps == {"Count", "MatchPrefix", "newConn"}

\* "ERROR", "num", "count", "prefix", "max", "generic error", "0" (zeroslice)
StrERROR == <<69, 82, 82, 79, 82>>
StrNum == <<110, 117, 109>>
StrCount == <<99, 111, 117, 110, 116>>
StrPrefix == <<112, 114, 101, 102, 105, 120>>
StrMax == <<109, 97, 120>>
StrGenericError == <<103, 101, 110, 101, 114, 105, 99, 32, 101, 114, 114, 111, 114>>
zeroslice == <<48>>

\* a result: err "nil" with the returned bytes in body, the returned
\* number in num or the returned []string in list, or an error kind; kind
\* "Error" is &Error{Message: body, Code: code}
Ok(body) == [err |-> "nil", code |-> 0, body |-> body, num |-> 0, list |-> <<>>]
OkNum(n) == [err |-> "nil", code |-> 0, body |-> <<>>, num |-> n, list |-> <<>>]
OkList(l) == [err |-> "nil", code |-> 0, body |-> <<>>, num |-> 0, list |-> l]
Err(kind) == [err |-> kind, code |-> 0, body |-> <<>>, num |-> 0, list |-> <<>>]
ErrorOf(msg, code) ==
    [err |-> "Error", code |-> code, body |-> msg, num |-> 0, list |-> <<>>]

\* doREST that does not look at what t.Stop() returns
doREST_IgnoreStop(stopped, r) ==
    [code |-> r.code, body |-> r.body, err |-> IF r.readErr THEN "read" ELSE "nil"]

\* doREST after roundTrip returned a response; stopped = t.Stop()
doREST(stopped, r) ==
    [code |-> r.code, body |-> r.body,
     err |-> IF ~stopped THEN "ErrTimeout" ELSE IF r.readErr THEN "read" ELSE "nil"]

\* doGet without the 404 case
doGet_No404(rest) ==
    IF rest.err # "nil" THEN Err(rest.err)
    ELSE IF rest.code = 200 THEN Ok(rest.body)
    ELSE ErrorOf(rest.body, rest.code)

doGet(rest) ==
    IF rest.err # "nil" THEN Err(rest.err)
    ELSE IF rest.code = 200 THEN Ok(rest.body)
    ELSE IF rest.code = 404 THEN Err("ErrNotFound")
    ELSE ErrorOf(rest.body, rest.code)

set(rest) ==
    IF rest.err # "nil" THEN Err(rest.err)
    ELSE IF rest.code # 201 THEN ErrorOf(rest.body, rest.code)
    ELSE Ok(<<>>)

\* remove without the 404 case
remove_No404(rest) ==
    IF rest.err # "nil" THEN Err(rest.err)
    ELSE IF rest.code # 204 THEN ErrorOf(rest.body, rest.code)
    ELSE Ok(<<>>)

remove(rest) ==
    IF rest.err # "nil" THEN Err(rest.err)
    ELSE IF rest.code = 404 THEN Err("ErrNotFound")
    ELSE IF rest.code # 204 THEN ErrorOf(rest.body, rest.code)
    ELSE Ok(<<>>)

\* doRPC after roundTrip returned a response: [code, vals, err]
doRPC(stopped, r) ==
    LET d == DecodeValues(r.body, r.ct)
    IN IF ~stopped THEN [code |-> 0, vals |-> <<>>, err |-> "ErrTimeout"]
       ELSE IF r.readErr THEN [code |-> 0, vals |-> <<>>, err |-> "read"]
       ELSE IF d.kind = "panic" THEN [code |-> 0, vals |-> <<>>, err |-> "panic"]
       ELSE IF d.kind = "error" THEN [code |-> 0, vals |-> <<>>, err |-> "DecodeError"]
       ELSE [code |-> r.code, vals |-> d.vals, err |-> "nil"]

RECURSIVE findRec(_, _)
findRec(kvs, key) ==
    IF Len(kvs) = 0 THEN [Key |-> <<>>, Value |-> <<>>]
    ELSE IF kvs[1].Key = key THEN kvs[1]
    ELSE findRec(Tail(kvs), key)

\* makeError that never reads the ERROR record
makeError_AlwaysGeneric(m) ==
    ErrorOf(StrGenericError, 0)

makeError(m) ==
    LET kv == findRec(m, StrERROR)
    IN IF kv.Key = <<>> THEN ErrorOf(StrGenericError, 0)
       ELSE ErrorOf(kv.Value, 0)

\* strconv.ParseInt(s, 10, 64) on a short string: [ok, n]
RECURSIVE DigitsValue(_)
DigitsValue(d) ==
    IF Len(d) = 0 THEN 0
    ELSE DigitsValue(Slice(d, 1, Len(d) - 1)) * 10 + (d[Len(d)] - 48)

ParseInt(b) ==
    LET signed == Len(b) > 0 /\ b[1] \in {43, 45}
        d == IF signed THEN Tail(b) ELSE b
    IN IF Len(d) = 0 \/ \E i \in 1..Len(d) : d[i] \notin 48..57
       THEN [ok |-> FALSE, n |-> 0]
       ELSE [ok |-> TRUE,
             n |-> IF signed /\ b[1] = 45 THEN 0 - DigitsValue(d) ELSE DigitsValue(d)]

\* setBulk after doRPC returned
setBulk(rpc) ==
    IF rpc.err # "nil" THEN Err(rpc.err)
    ELSE IF rpc.code # 200 THEN makeError(rpc.vals)
    ELSE LET n == ParseInt(findRec(rpc.vals, StrNum).Value)
         IN IF n.ok THEN OkNum(n.n) ELSE Err("NumError")

\* removeBulk after doRPC returned
removeBulk(rpc) ==
    IF rpc.err # "nil" THEN Err(rpc.err)
    ELSE IF rpc.code # 200 THEN makeError(rpc.vals)
    ELSE LET n == ParseInt(findRec(rpc.vals, StrNum).Value)
         IN IF n.ok THEN OkNum(n.n) ELSE Err("NumError")

\* Count after doRPC returned (strconv.Atoi of the "count" record)
Count(rpc) ==
    IF rpc.err # "nil" THEN Err(rpc.err)
    ELSE IF rpc.code # 200 THEN makeError(rpc.vals)
    ELSE LET n == ParseInt(findRec(rpc.vals, StrCount).Value)
         IN IF n.ok THEN OkNum(n.n) ELSE Err("NumError")

\* MatchPrefix's loop over the response records: res = the keys that start
\* with '_', stripped; ok = FALSE: kv.Key[0] on an empty key
RECURSIVE PrefixKeys(_, _)
PrefixKeys(m, res) ==
    IF Len(m) = 0 THEN [ok |-> TRUE, res |-> res]
    ELSE IF Len(m[1].Key) = 0 THEN [ok |-> FALSE, res |-> res]
    ELSE IF m[1].Key[1] = UNDERSCORE
         THEN PrefixKeys(Tail(m), Append(res, Tail(m[1].Key)))
    ELSE PrefixKeys(Tail(m), res)

\* MatchPrefix returning the empty list and no error when nothing matched
MatchPrefix_EmptyOk(rpc) ==
    IF rpc.err # "nil" THEN Err(rpc.err)
    ELSE IF rpc.code # 200 THEN makeError(rpc.vals)
    ELSE LET f == PrefixKeys(rpc.vals, <<>>)
         IN IF ~f.ok THEN Err("panic") ELSE OkList(f.res)

\* MatchPrefix after doRPC returned
MatchPrefix(rpc) ==
    IF rpc.err # "nil" THEN Err(rpc.err)
    ELSE IF rpc.code # 200 THEN makeError(rpc.vals)
    ELSE LET f == PrefixKeys(rpc.vals, <<>>)
         IN IF ~f.ok THEN Err("panic")
            ELSE IF Len(f.res) = 0 THEN Err("ErrSuccess")
            ELSE OkList(f.res)

\* newConn after doRPC(ctx, "/rpc/void", nil) returned: err "nil" is the
\* *Conn returned to the caller
newConn(rpc) ==
    IF rpc.err # "nil" THEN Err(rpc.err)
    ELSE Ok(<<>>)

\* some enumeration of a finite set, as Go's map iteration gives one
RECURSIVE SetToSeq(_)
SetToSeq(S) ==
    IF S = {} THEN <<>>
    ELSE LET x == CHOOSE y \in S : TRUE IN <<x>> \o SetToSeq(S \ {x})

\* the []KV an RPC operation sends for the map (or key list) m:
\* KV{"_" + k, zeroslice} per key, setBulk KV{"_" + k, []byte(v)};
\* MatchPrefix (m: its key -> FormatInt(maxrecords)) sends prefix and max;
\* Count and newConn send nil
KeysTransmit(o, m) ==
    LET ks == SetToSeq(DOMAIN m)
    IN IF o \in {"Count", "newConn"} THEN <<>>
       ELSE IF o = "MatchPrefix"
            THEN <<[Key |-> StrPrefix, Value |-> ks[1]],
                   [Key |-> StrMax, Value |-> m[ks[1]].b]>>
       ELSE [i \in 1..Len(ks) |->
               [Key |-> <<UNDERSCORE>> \o ks[i],
                Value |-> IF o = "setBulk" THEN m[ks[i]].b ELSE zeroslice]]

\* the loop over the response records: keys[kv.Key[1:]] = kv.Value for the
\* records whose key starts with '_'; ok = FALSE: kv.Key[0] on an empty key
RECURSIVE FillKeys(_, _)
FillKeys(keys, m) ==
    IF Len(m) = 0 THEN [ok |-> TRUE, keys |-> keys]
    ELSE IF Len(m[1].Key) = 0 THEN [ok |-> FALSE, keys |-> keys]
    ELSE IF m[1].Key[1] # UNDERSCORE THEN FillKeys(keys, Tail(m))
    ELSE LET k == Tail(m[1].Key)
             keys2 == [x \in DOMAIN keys \cup {k} |->
                          IF x = k THEN Val(m[1].Value) ELSE keys[x]]
         IN FillKeys(keys2, Tail(m))

\* DropNil deleting the empty values as well
DropNil_Empty(keys) ==
    [k \in {x \in DOMAIN keys : ~keys[x].nil /\ keys[x].b # <<>>} |-> keys[k]]

\* the last loop: delete(keys, k) for every k still nil
DropNil(keys) ==
    [k \in {x \in DOMAIN keys : ~keys[x].nil} |-> keys[k]]

\* doGetBulkBytes after doRPC returned, on the map whose values it had set
\* to nil: [res, keys]
doGetBulkBytes(keys, rpc) ==
    IF rpc.err # "nil" THEN [res |-> Err(rpc.err), keys |-> keys]
    ELSE IF rpc.code # 200 THEN [res |-> makeError(rpc.vals), keys |-> keys]
    ELSE LET f == FillKeys(keys, rpc.vals)
         IN IF ~f.ok THEN [res |-> Err("panic"), keys |-> f.keys]
            ELSE [res |-> Ok(<<>>), keys |-> DropNil(f.keys)]

\* GetBulk after doRPC returned: m is its private map, keysAndVals the
\* caller's
GetBulk(keysAndVals, rpc) ==
    LET m == [k \in DOMAIN keysAndVals |-> NilVal]
        g == doGetBulkBytes(m, rpc)
    IN IF g.res.err # "nil" THEN [res |-> g.res, keys |-> keysAndVals]
       ELSE [res |-> Ok(<<>>),
             keys |-> [k \in DOMAIN keysAndVals \cap DOMAIN g.keys |-> g.keys[k]]]

\* the header map an operation hands to roundTrip
TemplateOf(o, m) ==
    IF o \in RestOps THEN "emptyHeader"
    ELSE IF TSVEncode(KeysTransmit(o, m)).enc = Base64Enc THEN "base64headers"
    ELSE "identityheaders"

\* the operation's result and the caller's map once the body is read
Outcome(o, keys, stopped, r) ==
    IF o \in {"Get", "GetBytes"} THEN [res |-> doGet(doREST(stopped, r)), keys |-> keys]
    ELSE IF o = "set" THEN [res |-> set(doREST(stopped, r)), keys |-> keys]
    ELSE IF o = "remove" THEN [res |-> remove(doREST(stopped, r)), keys |-> keys]
    ELSE IF o = "setBulk" THEN [res |-> setBulk(doRPC(stopped, r)), keys |-> keys]
    ELSE IF o = "removeBulk" THEN [res |-> removeBulk(doRPC(stopped, r)), keys |-> keys]
    ELSE IF o = "GetBulk" THEN GetBulk(keys, doRPC(stopped, r))
    ELSE IF o = "Count" THEN [res |-> Count(doRPC(stopped, r)), keys |-> keys]
    ELSE IF o = "MatchPrefix" THEN [res |-> MatchPrefix(doRPC(stopped, r)), keys |-> keys]
    ELSE IF o = "newConn" THEN [res |-> newConn(doRPC(stopped, r)), keys |-> keys]
    ELSE doGetBulkBytes(keys, doRPC(stopped, r))

\* ------------------------------------------------------------------------
\* Conn.roundTrip / Conn.makeRequest (kt.go:539-590), one call per caller
\* ------------------------------------------------------------------------
\* A timer is "running" (pending), "fired" or "stopped"; t.Stop() returns
\* true exactly on a running timer. Stop(t): the timer's state afterwards
Stop(t) == IF t = "running" THEN "stopped" ELSE t

\* the number of pending timers a t.Stop() on timer t leaves of n
StopPending(t, n) == IF t = "running" THEN n - 1 ELSE n

\* makeRequest's Inject into the shared header map t. The write races with
\* a transport that is reading the same map for another call's request in
\* flight: the runtime may stop the process (concurrent map read and write).
Inject(p, t) ==
    \/ /\ hdr' = IF tracer THEN [hdr EXCEPT ![t] = p] ELSE hdr
       /\ crashed' = crashed
    \/ /\ tracer
       /\ \E q \in Callers \ {p} : call[q].tmpl = t /\ call[q].pc = "inflight"
       /\ hdr' = hdr
       /\ crashed' = TRUE

\* makeRequest's effect on the header map t for operation o: every public
\* operation has started a span, newConn's context carries none
makeRequest(p, o, t) ==
    IF o = "newConn" THEN hdr' = hdr /\ crashed' = crashed
    ELSE Inject(p, t)

\* A public operation o starts on the caller's map m: the operation's
\* prelude, then roundTrip's first makeRequest (Inject, timer started).
Call(p, o, m) ==
    /\ ~crashed
    /\ call[p].pc = "idle"
    /\ o \in RestOps => m = EmptyMap
    /\ o = "newConn" => (retryCount = Zero64 /\ ~idle)
    /\ kmap' = [kmap EXCEPT ![p] =
                   IF o = "GetBulkBytes" THEN [k \in DOMAIN m |-> NilVal] ELSE m]
    /\ call' = [call EXCEPT ![p].pc = "inflight", ![p].op = o,
                            ![p].tmpl = TemplateOf(o, m),
                            ![p].attempt = 1, ![p].t = "running",
                            ![p].pending = 1,
                            ![p].keys0 = m]
    /\ makeRequest(p, o, TemplateOf(o, m))
    /\ UNCHANGED <<retryCount, count0, idle, tracer>>
    /\ UNCHANGED codecVars

\* transport.RoundTrip writes the request, with the headers that the map
\* req.Header points at (hdr[tmpl]) holds now; the server receives and
\* applies it.
Send(p) ==
    /\ ~crashed
    /\ call[p].pc = "inflight"
    /\ call' = [call EXCEPT ![p].pc = "sent", ![p].applied = @ + 1]
    /\ UNCHANGED <<retryCount, count0, idle, tracer, hdr, crashed, kmap>>
    /\ UNCHANGED codecVars

\* transport.RoundTrip returns a response (headers received).
RoundTripOK(p) ==
    /\ ~crashed
    /\ call[p].pc = "sent"
    /\ call' = [call EXCEPT ![p].pc = IF call[p].attempt = 1 THEN "body" ELSE "returned2",
                            ![p].rterr = FALSE]
    /\ UNCHANGED <<retryCount, count0, idle, tracer, hdr, crashed, kmap>>
    /\ UNCHANGED codecVars

\* RoundTripErr after which a failed retry is retried again
RoundTripErr_RetryAgain(p, cause) ==
    /\ ~crashed
    /\ call[p].pc \in {"inflight", "sent"}
    /\ cause = "timer" => call[p].t = "fired"
    /\ call' = [call EXCEPT ![p].pc = "failed1",
                            ![p].cause1 = IF call[p].attempt = 1 THEN cause ELSE @,
                            ![p].rterr = TRUE]
    /\ UNCHANGED <<retryCount, count0, idle, tracer, hdr, crashed, kmap>>
    /\ UNCHANGED codecVars

\* transport.RoundTrip returns an error: a network error ("net"), the
\* attempt's timer cancelled the request ("timer"), or the caller's context
\* was cancelled ("ctx"); before or after the server received the request.
RoundTripErr(p, cause) ==
    /\ ~crashed
    /\ call[p].pc \in {"inflight", "sent"}
    /\ cause = "timer" => call[p].t = "fired"
    /\ call' = [call EXCEPT ![p].pc = IF call[p].attempt = 1 THEN "failed1" ELSE "returned2",
                            ![p].cause1 = IF call[p].attempt = 1 THEN cause ELSE @,
                            ![p].rterr = TRUE]
    /\ UNCHANGED <<retryCount, count0, idle, tracer, hdr, crashed, kmap>>
    /\ UNCHANGED codecVars

\* Retry that leaves the first timer pending
Retry_NoStop(p) ==
    /\ ~crashed
    /\ call[p].pc = "failed1"
    /\ idle' = FALSE
    /\ call' = [call EXCEPT ![p].pc = "inflight", ![p].attempt = 2,
                            ![p].t = "running", ![p].pending = @ + 1]
    /\ makeRequest(p, call[p].op, call[p].tmpl)
    /\ UNCHANGED <<retryCount, count0, tracer, kmap>>
    /\ UNCHANGED codecVars

\* roundTrip's err != nil branch up to the second RoundTrip: t.Stop(),
\* CloseIdleConnections(), makeRequest again.
Retry(p) ==
    /\ ~crashed
    /\ call[p].pc = "failed1"
    /\ idle' = FALSE
    /\ call' = [call EXCEPT ![p].pc = "inflight", ![p].attempt = 2,
                            ![p].t = "running",
                            ![p].pending = StopPending(call[p].t, @) + 1]
    /\ makeRequest(p, call[p].op, call[p].tmpl)
    /\ UNCHANGED <<retryCount, count0, tracer, kmap>>
    /\ UNCHANGED codecVars

\* AfterRetry counting only the retries that succeeded
AfterRetry_CountSuccess(p) ==
    /\ ~crashed
    /\ call[p].pc = "returned2"
    /\ retryCount' = IF call[p].rterr THEN retryCount ELSE AddUint64(retryCount, 1)
    /\ call' = [call EXCEPT
                   ![p].pc = IF call[p].rterr THEN "done" ELSE "body",
                   ![p].t = IF call[p].rterr THEN Stop(@) ELSE @,
                   ![p].pending = IF call[p].rterr THEN StopPending(call[p].t, @) ELSE @,
                   ![p].result = IF ~call[p].rterr THEN @
                                 ELSE IF call[p].t # "running" THEN Err("ErrTimeout")
                                 ELSE Err("transport")]
    /\ UNCHANGED <<count0, idle, tracer, hdr, crashed, kmap>>
    /\ UNCHANGED codecVars

\* AfterRetry adding 2
AfterRetry_AddTwo(p) ==
    /\ ~crashed
    /\ call[p].pc = "returned2"
    /\ retryCount' = AddUint64(retryCount, 2)
    /\ call' = [call EXCEPT
                   ![p].pc = IF call[p].rterr THEN "done" ELSE "body",
                   ![p].t = IF call[p].rterr THEN Stop(@) ELSE @,
                   ![p].pending = IF call[p].rterr THEN StopPending(call[p].t, @) ELSE @,
                   ![p].result = IF ~call[p].rterr THEN @
                                 ELSE IF call[p].t # "running" THEN Err("ErrTimeout")
                                 ELSE Err("transport")]
    /\ UNCHANGED <<count0, idle, tracer, hdr, crashed, kmap>>
    /\ UNCHANGED codecVars

\* AfterRetry reporting the transport error whatever t.Stop() returns
AfterRetry_KeepErr(p) ==
    /\ ~crashed
    /\ call[p].pc = "returned2"
    /\ retryCount' = AddUint64(retryCount, 1)
    /\ call' = [call EXCEPT
                   ![p].pc = IF call[p].rterr THEN "done" ELSE "body",
                   ![p].t = IF call[p].rterr THEN Stop(@) ELSE @,
                   ![p].pending = IF call[p].rterr THEN StopPending(call[p].t, @) ELSE @,
                   ![p].result = IF ~call[p].rterr THEN @ ELSE Err("transport")]
    /\ UNCHANGED <<count0, idle, tracer, hdr, crashed, kmap>>
    /\ UNCHANGED codecVars

\* After the second RoundTrip returned: atomic.AddUint64(&c.retryCount, 1),
\* then roundTrip's final error check (t.Stop() decides Timeout) or return.
AfterRetry(p) ==
    /\ ~crashed
    /\ call[p].pc = "returned2"
    /\ retryCount' = AddUint64(retryCount, 1)
    /\ call' = [call EXCEPT
                   ![p].pc = IF call[p].rterr THEN "done" ELSE "body",
                   ![p].t = IF call[p].rterr THEN Stop(@) ELSE @,
                   ![p].pending = IF call[p].rterr THEN StopPending(call[p].t, @) ELSE @,
                   ![p].result = IF ~call[p].rterr THEN @
                                 ELSE IF call[p].t # "running" THEN Err("ErrTimeout")
                                 ELSE Err("transport")]
    /\ UNCHANGED <<count0, idle, tracer, hdr, crashed, kmap>>
    /\ UNCHANGED codecVars

\* The dispatcher's tail and the operation's status mapping, once
\* roundTrip returned the response r: ReadAll, Body.Close, t.Stop(), decode,
\* map the status. A body read to its end returns the connection to the pool.
Finish(p, r) ==
    LET c == call[p]
        stopped == c.t = "running"
        out == Outcome(c.op, kmap[p], stopped, r)
    IN /\ ~crashed
       /\ c.pc = "body"
       /\ call' = [call EXCEPT ![p].pc = "done",
                               ![p].t = Stop(@),
                               ![p].pending = StopPending(c.t, @),
                               ![p].resp = r,
                               ![p].result = out.res]
       /\ kmap' = [kmap EXCEPT ![p] = out.keys]
       /\ idle' = IF stopped /\ ~r.readErr THEN TRUE ELSE idle
       /\ crashed' = (out.res.err = "panic")
       /\ UNCHANGED <<retryCount, count0, tracer, hdr>>
       /\ UNCHANGED codecVars

\* A time.AfterFunc timer of the call fires, CancelRequest(req): the timer
\* t of the attempt in progress, or a timer of an earlier attempt that was
\* left pending (its request is over: the cancel does nothing).
TimerFire(p) ==
    /\ ~crashed
    /\ call[p].pending > 0
    /\ \/ /\ call[p].t = "running"
          /\ call' = [call EXCEPT ![p].t = "fired", ![p].pending = @ - 1]
       \/ /\ call[p].pending > (IF call[p].t = "running" THEN 1 ELSE 0)
          /\ call' = [call EXCEPT ![p].pending = @ - 1]
    /\ UNCHANGED <<retryCount, count0, idle, tracer, hdr, crashed, kmap>>
    /\ UNCHANGED codecVars

\* ------------------------------------------------------------------------
\* The server and the callers' inputs
\* ------------------------------------------------------------------------
Causes == {"net", "timer", "ctx"}
Statuses == {200, 201, 204, 404, 500}
Bodies == {<<>>, <<65>>}
\* keys a caller asks for: "", "A", 0xff
BulkKeys == {<<>>, <<65>>, <<255>>}
\* values the server holds: "", LF
BulkVals == {<<>>, <<10>>}
\* the value every key of the caller's map holds before the call: "B"
CallerMaps == {[k \in K |-> Val(<<66>>)] : K \in SUBSET BulkKeys}

\* the wire format of a record list (key TAB value LF), base64 per field
\* when b64
RECURSIVE ServerBody(_, _)
ServerBody(recs, b64) ==
    IF Len(recs) = 0 THEN <<>>
    ELSE (IF b64 THEN b64Encode(recs[1].Key) ELSE recs[1].Key) \o <<TAB>>
         \o (IF b64 THEN b64Encode(recs[1].Value) ELSE recs[1].Value) \o <<LF>>
         \o ServerBody(Tail(recs), b64)

\* an RPC response carrying recs: base64 fields, or plain when every byte
\* is printable
RpcResponses(code, recs, shape, held) ==
    { [code |-> code, body |-> ServerBody(recs, b64),
       ct |-> IF b64 THEN CTBase64 ELSE CTIdentity, readErr |-> FALSE,
       shape |-> shape, held |-> held] :
      b64 \in {x \in BOOLEAN : x \/ ~ListHasBinary(recs)} }

\* the orderings of a finite set
RECURSIVE Orderings(_)
Orderings(S) ==
    IF S = {} THEN {<<>>}
    ELSE UNION { { <<x>> \o rest : rest \in Orderings(S \ {x}) } : x \in S }

\* the get_bulk answers to a request for the keys K: status 200 with the
\* records "_"+k -> value of the keys the server holds, in any order
HeldResponses(K) ==
    UNION { UNION { UNION {
        RpcResponses(200,
                     [i \in 1..Len(ord) |->
                         [Key |-> <<UNDERSCORE>> \o ord[i], Value |-> held[ord[i]]]],
                     "held", [k \in F |-> Val(held[k])]) :
        ord \in Orderings(F) } : held \in [F -> BulkVals] } : F \in SUBSET K }

\* get_bulk answers no Kyoto Tycoon gives to a request for the keys K:
\* status 200 with a record for the key "Z" nobody asked for, a record
\* without the '_' prefix, a key twice, a record whose key is empty
ArbitraryResponses(K) ==
    UNION { RpcResponses(200, recs, "arbitrary", EmptyMap) :
            recs \in { <<[Key |-> <<UNDERSCORE, 90>>, Value |-> <<65>>]>>,
                       <<[Key |-> StrNum, Value |-> <<49>>]>>,
                       <<[Key |-> <<>>, Value |-> <<65>>]>> }
                     \cup { <<[Key |-> <<UNDERSCORE>> \o k, Value |-> <<65>>],
                              [Key |-> <<UNDERSCORE>> \o k, Value |-> <<>>]>> : k \in K }
                     \cup { <<[Key |-> <<UNDERSCORE>> \o k, Value |-> <<65>>],
                              [Key |-> <<UNDERSCORE, 90>>, Value |-> <<65>>]>> : k \in K } }

\* a failed RPC: status 500 with an ERROR record, or with no record
ErrorResponses ==
    RpcResponses(500, <<[Key |-> StrERROR, Value |-> <<65>>]>>, "error", EmptyMap)
    \cup RpcResponses(500, <<>>, "error", EmptyMap)

\* a failed RPC whose ERROR record is not the first record, and not the
\* only ERROR record
LateErrorResponses ==
    RpcResponses(500, <<[Key |-> StrNum, Value |-> zeroslice],
                        [Key |-> StrERROR, Value |-> <<66>>],
                        [Key |-> StrERROR, Value |-> <<65>>]>>, "error", EmptyMap)

\* the set_bulk / remove_bulk answers: status 200 with num, or without
NumResponses ==
    RpcResponses(200, <<[Key |-> StrNum, Value |-> <<49>>]>>, "num", EmptyMap)
    \cup RpcResponses(200, <<>>, "num", EmptyMap)

\* the status answers: status 200 with count, with a count that is no
\* number, or without
CountResponses ==
    RpcResponses(200, <<[Key |-> StrCount, Value |-> <<55>>]>>, "count", EmptyMap)
    \cup RpcResponses(200, <<[Key |-> StrCount, Value |-> <<65>>]>>, "count", EmptyMap)
    \cup RpcResponses(200, <<>>, "count", EmptyMap)

\* the match_prefix answers: status 200 with "_"+key records and num, in
\* several orders, with no "_" record, or with a record whose key is empty
PrefixResponses ==
    UNION { RpcResponses(200, recs, "prefix", EmptyMap) :
            recs \in { <<>>,
                       <<[Key |-> StrNum, Value |-> zeroslice]>>,
                       <<[Key |-> <<UNDERSCORE, 65>>, Value |-> zeroslice],
                         [Key |-> StrNum, Value |-> <<49>>]>>,
                       <<[Key |-> StrNum, Value |-> <<50>>],
                         [Key |-> <<UNDERSCORE, 66>>, Value |-> zeroslice],
                         [Key |-> <<UNDERSCORE>>, Value |-> <<49>>],
                         [Key |-> <<UNDERSCORE, 65>>, Value |-> <<50>>]>>,
                       <<[Key |-> <<>>, Value |-> <<65>>]>> } }

\* the void answer: status 200 and no body
VoidResponses == RpcResponses(200, <<>>, "void", EmptyMap)

\* a response DecodeValues does not decode: a body under a Content-Type
\* the protocol does not know, or under none
UndecodableResponses ==
    { [code |-> 200, body |-> <<65, TAB, 65, LF>>, ct |-> c, readErr |-> FALSE,
       shape |-> "undecodable", held |-> EmptyMap] : c \in {CTHtml, <<>>} }

RestResponses ==
    { [code |-> c, body |-> b, ct |-> <<>>, readErr |-> e,
       shape |-> "rest", held |-> EmptyMap] :
      c \in Statuses, b \in Bodies, e \in BOOLEAN }

\* what may come back to the call of caller p
Responses(p) ==
    IF call[p].op \in RestOps THEN RestResponses
    ELSE (IF call[p].op \in BulkOps
          THEN HeldResponses(DOMAIN kmap[p]) \cup ArbitraryResponses(DOMAIN kmap[p])
          ELSE IF call[p].op \in BulkWriteOps THEN NumResponses
          ELSE IF call[p].op = "Count" THEN CountResponses \cup UndecodableResponses
          ELSE IF call[p].op = "MatchPrefix" THEN PrefixResponses \cup LateErrorResponses
          ELSE VoidResponses)
         \cup ErrorResponses
         \cup { [r EXCEPT !.readErr = TRUE] : r \in ErrorResponses }

\* ------------------------------------------------------------------------
\* One caller, every operation, every response
\* ------------------------------------------------------------------------
Init ==
    /\ CodecIdle
    /\ count0 \in {Zero64, Max64}
    /\ retryCount = count0
    /\ idle \in BOOLEAN
    /\ tracer \in BOOLEAN
    /\ hdr = [t \in Templates |-> 0]
    /\ crashed = FALSE
    /\ call = [p \in Callers |-> IdleCall]
    /\ kmap = [p \in Callers |-> EmptyMap]

\* MatchPrefix's arguments: the key "A" or 0xff, maxrecords 0 or -1
PrefixArgs ==
    {[k \in {key} |-> Val(max)] : key \in {<<65>>, <<255>>}, max \in {zeroslice, <<45, 49>>}}

\* the arguments an operation takes, as its map
ArgMaps(o) ==
    IF o \in BulkOps \cup BulkWriteOps THEN CallerMaps
    ELSE IF o = "MatchPrefix" THEN PrefixArgs
    ELSE {EmptyMap}

NextOp ==
    \/ \E o \in RestOps \cup BulkOps \cup BulkWriteOps \cup PlainRpcOps :
           \E m \in ArgMaps(o) : Call(1, o, m)
    \/ Send(1)
    \/ RoundTripOK(1)
    \/ \E cause \in Causes : RoundTripErr(1, cause)
    \/ Retry(1)
    \/ AfterRetry(1)
    \/ \E r \in Responses(1) : Finish(1, r)
    \/ TimerFire(1)

SpecOp == Init /\ [][NextOp]_vars

\* ------------------------------------------------------------------------
\* NumCallers callers on one Conn
\* ------------------------------------------------------------------------
\* every caller makes one Get, answered 200 "A"; a failed attempt is a
\* network error (the attempt's timer may have fired or not)
ConcOps == {"Get"}
ConcResponses == {r \in RestResponses : r.code = 200 /\ r.body = <<65>> /\ ~r.readErr}

Next ==
    \E p \in Callers :
        \/ \E o \in ConcOps : Call(p, o, EmptyMap)
        \/ Send(p)
        \/ RoundTripOK(p)
        \/ RoundTripErr(p, "net")
        \/ Retry(p)
        \/ AfterRetry(p)
        \/ \E r \in ConcResponses : Finish(p, r)
        \/ TimerFire(p)

Spec == Init /\ [][Next]_vars

\* ------------------------------------------------------------------------
\* C1: decoding what TSVEncode produced, with the Content-Type of the
\* returned encoding, gives back the record list: same length, same order,
\* same key and value bytes.
\* ------------------------------------------------------------------------
C1_RoundTrip ==
    cpc = "decoded" =>
        /\ decoded.kind = "ok"
        /\ decoded.vals = values

\* a list with a repeated key, an empty value and a delimiter byte in a
\* field has made the round trip through Base64
C1_Witness ==
    /\ cpc = "decoded"
    /\ wire.enc = Base64Enc
    /\ Len(values) = 2
    /\ values[1].Key = values[2].Key
    /\ values[1].Value = <<>>
    /\ \E i \in 1..Len(values[2].Value) : values[2].Value[i] = TAB
    /\ decoded.vals = values

\* ------------------------------------------------------------------------
\* C2: TSVEncode returns Base64Enc, with every key and value base64-encoded,
\* exactly when some byte of some key or value is outside 0x20-0x7e;
\* otherwise it returns IdentityEnc with every field copied verbatim.
\* ------------------------------------------------------------------------
\* key TAB value LF of every record, each field under one and the same f
RECURSIVE FlatWire(_, _)
FlatWire(L, b64) ==
    IF Len(L) = 0 THEN <<>>
    ELSE (IF b64 THEN b64Encode(L[1].Key) ELSE L[1].Key) \o <<TAB>>
         \o (IF b64 THEN b64Encode(L[1].Value) ELSE L[1].Value) \o <<LF>>
         \o FlatWire(Tail(L), b64)

SomeByteOutside(L) ==
    \E i \in 1..Len(L) :
        \/ \E j \in 1..Len(L[i].Key) : L[i].Key[j] \notin 32..126
        \/ \E j \in 1..Len(L[i].Value) : L[i].Value[j] \notin 32..126

C2_EncodingSelection ==
    cpc # "input" =>
        /\ wire.enc \in {IdentityEnc, Base64Enc}
        /\ (wire.enc = Base64Enc) <=> SomeByteOutside(values)
        /\ wire.enc = Base64Enc => wire.buf = FlatWire(values, TRUE)
        /\ wire.enc = IdentityEnc =>
              Slice(wire.buf, 1, wire.n) = FlatWire(values, FALSE)

\* one binary byte in the second record's value; the first record is
\* printable and non-empty, and was base64-encoded all the same
C2_Witness ==
    /\ cpc = "encoded"
    /\ Len(values) = 2
    /\ values[1].Key # <<>>
    /\ ~hasBinary(values[1].Key) /\ ~hasBinarySlice(values[1].Value)
    /\ hasBinarySlice(values[2].Value)
    /\ wire.enc = Base64Enc
    /\ Slice(wire.buf, 1, 4) = b64Encode(values[1].Key)

\* ------------------------------------------------------------------------
\* Readings of a call's record
\* ------------------------------------------------------------------------
Done(p) == call[p].pc = "done"
\* roundTrip returned a response and the dispatcher read its body
GotResponse(p) == call[p].resp.shape # "none"
WriteOps == {"set", "remove", "setBulk", "removeBulk"}

\* ------------------------------------------------------------------------
\* C3 as stated: whenever a deadline timer of the call fired before the
\* body was fully read, the call's result is Timeout.
\* ------------------------------------------------------------------------
C3_AnyTimerFired ==
    \A p \in Callers :
        (Done(p) /\ (call[p].t = "fired" \/ call[p].cause1 = "timer"))
            => call[p].result.err = "ErrTimeout"

\* C3 as amended: whenever the timer of the call's last transport attempt
\* (the timer roundTrip holds when it returns) fired before the body was
\* fully read and the timer stopped, the call's result is Timeout, also when
\* a response and body bytes had been received.
C3_LastTimerFired ==
    \A p \in Callers :
        (Done(p) /\ call[p].t = "fired") => call[p].result.err = "ErrTimeout"

\* a Get whose response (status 200, a non-empty body) was read after the
\* timer had fired ended in Timeout
C3_Witness ==
    \E p \in Callers :
        /\ Done(p) /\ call[p].op = "Get" /\ call[p].t = "fired"
        /\ GotResponse(p) /\ call[p].resp.code = 200 /\ call[p].resp.body # <<>>
        /\ ~call[p].resp.readErr
        /\ call[p].result.err = "ErrTimeout"

\* ------------------------------------------------------------------------
\* C4: a roundTrip makes one or two transport attempts; the second is made
\* exactly when the first reported an error, whatever its cause; the step
\* that starts it has stopped the first timer, closed the idle connections
\* and started a fresh timer; the server receives the request at most twice.
\* ------------------------------------------------------------------------
C4_AtMostOneRetry ==
    /\ [](\A p \in Callers :
            /\ call[p].pc # "idle" => call[p].attempt \in {1, 2}
            /\ call[p].applied <= call[p].attempt
            /\ call[p].pc \in {"body", "returned2", "done"} =>
                  (call[p].attempt = 2 <=> call[p].cause1 # "none")
            /\ call[p].attempt = 2 =>
                  call[p].pending = (IF call[p].t = "running" THEN 1 ELSE 0))
    /\ [][\A p \in Callers :
            (call[p].attempt = 1 /\ call'[p].attempt = 2) =>
                /\ call[p].pc = "failed1"
                /\ idle' = FALSE
                /\ call'[p].t = "running" /\ call'[p].pending = 1]_vars

\* the first attempt was aborted by its own timer after the server had
\* received the request; the retry was sent too and the call succeeded
C4_Witness ==
    \E p \in Callers :
        /\ Done(p) /\ call[p].attempt = 2 /\ call[p].cause1 = "timer"
        /\ call[p].applied = 2 /\ call[p].result.err = "nil"

\* ------------------------------------------------------------------------
\* C5 as stated: no set, remove, bulk set or bulk remove returns success
\* with the server having applied the call's request more than once.
\* ------------------------------------------------------------------------
C5_NoDoubleApply ==
    \A p \in Callers :
        (Done(p) /\ call[p].op \in WriteOps /\ call[p].result.err = "nil")
            => call[p].applied <= 1

\* C5 as amended: a set, remove, bulk set or bulk remove that returns
\* success was applied by the server once or twice, and twice only when the
\* call's first attempt reported a transport error and was retried, which
\* the retry counter records.
C5_AtMostTwice ==
    \A p \in Callers :
        (Done(p) /\ call[p].op \in WriteOps /\ call[p].result.err = "nil")
            => /\ call[p].applied \in {1, 2}
               /\ call[p].applied = 2 =>
                    /\ call[p].attempt = 2 /\ call[p].cause1 # "none"
                    /\ retryCount # count0

\* a set applied twice returned success
C5_Witness ==
    \E p \in Callers :
        /\ Done(p) /\ call[p].op = "set" /\ call[p].result.err = "nil"
        /\ call[p].applied = 2

\* ------------------------------------------------------------------------
\* C6: (one caller) a call whose first attempt failed and whose retry got a
\* response leaves retryCount one higher, modulo 2^64; a call whose first
\* attempt got a response leaves it unchanged.
\* ------------------------------------------------------------------------
C6_RetryCountPerCall ==
    (Done(1) /\ GotResponse(1)) =>
        IF call[1].cause1 # "none"
        THEN retryCount = AddUint64(count0, 1)
        ELSE retryCount = count0

\* a retried call got its response; the counter went from 2^64-1 to 0
C6_Witness ==
    /\ Done(1) /\ GotResponse(1) /\ call[1].cause1 = "net"
    /\ call[1].result.err = "nil"
    /\ count0 = Max64 /\ retryCount = Zero64

\* ------------------------------------------------------------------------
\* C7 as stated: calls share no header set. The map a request in flight
\* carries as its headers holds no entry written for another call, and no
\* call's write to a header map races with another call's use of the map.
\* ------------------------------------------------------------------------
C7_NoSharedHeaders ==
    /\ ~crashed
    /\ \A p \in Callers :
          call[p].pc = "inflight" => hdr[call[p].tmpl] \in {0, p}

\* ------------------------------------------------------------------------
\* C8: with callers running concurrently, retryCount never decreases except
\* by wrapping from 2^64-1 to 0, and when no call is in progress it equals
\* the initial value plus the number of retry attempts made, modulo 2^64.
\* ------------------------------------------------------------------------
NumRetries == Cardinality({p \in Callers : call[p].attempt = 2})

C8_RetryCountConcurrent ==
    /\ [][\/ retryCount' = retryCount
          \/ Less64(retryCount, retryCount')
          \/ (retryCount = Max64 /\ retryCount' = Zero64)]_vars
    /\ []((\A p \in Callers : call[p].pc \in {"idle", "done"}) =>
             retryCount = AddUint64(count0, NumRetries))

\* two callers both retried, one retry failed; the counter wrapped and
\* counts both
C8_Witness ==
    /\ \A p \in Callers : Done(p)
    /\ NumRetries >= 2
    /\ \E p \in Callers : call[p].result.err = "transport"
    /\ \E p \in Callers : call[p].result.err = "nil"
    /\ count0 = Max64
    /\ retryCount = AddUint64(Zero64, NumRetries - 1)

\* ------------------------------------------------------------------------
\* C9: when the server answers a bulk get for the keys K with status 200
\* and the records "_"+k -> value of the keys F it holds, and the call does
\* not time out, GetBulk / GetBulkBytes return no error and leave in the
\* caller's map exactly the keys of F with the server's values; a held empty
\* value is present and empty.
\* ------------------------------------------------------------------------
C9_BulkGet ==
    \A p \in Callers :
        (Done(p) /\ call[p].op \in BulkOps /\ call[p].resp.shape = "held"
            /\ call[p].result.err # "ErrTimeout")
        => /\ call[p].result.err = "nil"
           /\ kmap[p] = call[p].resp.held

\* three keys asked for, the server held two of them, one with an empty
\* value: the map holds exactly these two
C9_Witness ==
    \E p \in Callers :
        /\ Done(p) /\ call[p].op = "GetBulk" /\ call[p].result.err = "nil"
        /\ call[p].resp.shape = "held"
        /\ Cardinality(DOMAIN call[p].resp.held) = 2
        /\ DOMAIN kmap[p] = DOMAIN call[p].resp.held
        /\ \E k \in DOMAIN kmap[p] : kmap[p][k] = Val(<<>>)
        /\ \E k \in DOMAIN kmap[p] : kmap[p][k].b # <<>>
        /\ \E k \in BulkKeys : k \notin DOMAIN kmap[p]

\* ------------------------------------------------------------------------
\* C10: a Get / GetBytes whose response was read without transport error
\* or timeout returns ErrNotFound on status 404, the body and no error on
\* 200, and otherwise an Error carrying the status and the body.
\* ------------------------------------------------------------------------
C10_GetStatusMapping ==
    \A p \in Callers :
        LET c == call[p] IN
        (Done(p) /\ c.op \in {"Get", "GetBytes"} /\ GotResponse(p)
            /\ ~c.resp.readErr /\ c.t = "stopped")
        => IF c.resp.code = 404 THEN c.result.err = "ErrNotFound"
           ELSE IF c.resp.code = 200
                THEN c.result.err = "nil" /\ c.result.body = c.resp.body
           ELSE /\ c.result.err = "Error"
                /\ c.result.code = c.resp.code
                /\ c.result.body = c.resp.body

\* a GetBytes answered 500 with a body returned Error{body, 500}
C10_Witness ==
    \E p \in Callers :
        /\ Done(p) /\ call[p].op = "GetBytes" /\ call[p].t = "stopped"
        /\ call[p].resp.code = 500 /\ call[p].resp.body = <<65>>
        /\ call[p].result = ErrorOf(<<65>>, 500)

\* ------------------------------------------------------------------------
\* C11: a set whose response was read without transport error or timeout
\* returns success exactly on status 201 and otherwise Error{body, code};
\* a remove returns success exactly on 204, ErrNotFound exactly on 404 and
\* otherwise Error{body, code} with the status and the raw body.
\* ------------------------------------------------------------------------
C11_WriteStatusMapping ==
    \A p \in Callers :
        LET c == call[p] IN
        (Done(p) /\ c.op \in {"set", "remove"} /\ GotResponse(p)
            /\ ~c.resp.readErr /\ c.t = "stopped")
        => /\ c.op = "set" =>
                /\ (c.result.err = "nil") <=> (c.resp.code = 201)
                /\ c.resp.code # 201 => c.result = ErrorOf(c.resp.body, c.resp.code)
           /\ c.op = "remove" =>
                /\ (c.result.err = "nil") <=> (c.resp.code = 204)
                /\ (c.result.err = "ErrNotFound") <=> (c.resp.code = 404)
                /\ c.resp.code \notin {204, 404} =>
                      c.result = ErrorOf(c.resp.body, c.resp.code)

\* a remove answered 404 returned ErrNotFound, not Error{body, 404}
C11_Witness ==
    \E p \in Callers :
        /\ Done(p) /\ call[p].op = "remove" /\ call[p].t = "stopped"
        /\ GotResponse(p) /\ ~call[p].resp.readErr
        /\ call[p].resp.code = 404 /\ call[p].resp.body = <<65>>
        /\ call[p].result.err = "ErrNotFound"

\* ------------------------------------------------------------------------
\* Readings of a decoded response
\* ------------------------------------------------------------------------
Parsed == cpc = "parsed"
LastChar(ct) == ct[Len(ct)]
\* the records of buf split on TAB and LF with no field decoding
RawRecords(buf) == DecodeValues(buf, <<115>>).vals
\* the decoder the protocol names for a final character
FieldDecoder(c, b) ==
    IF c = 66 THEN base64Decode(b).b
    ELSE IF c = 85 THEN urlDecode(b).b
    ELSE b

\* ------------------------------------------------------------------------
\* C12 as stated: DecodeValues decodes every field with base64 when the
\* Content-Type ends in 'B', with percent-escapes when it ends in 'U' and
\* leaves it as it is when it ends in 's'; for every buffer and every
\* Content-Type ending in another character it fails with the unknown
\* Content-Type Error and returns no records.
\* ------------------------------------------------------------------------
C12_DispatchEveryBuffer ==
    (Parsed /\ contenttype # <<>>) =>
        IF LastChar(contenttype) \in {66, 85, 115}
        THEN decoded.kind = "ok" =>
               decoded.vals =
                 [i \in 1..Len(RawRecords(wire.buf)) |->
                    [Key |-> FieldDecoder(LastChar(contenttype), RawRecords(wire.buf)[i].Key),
                     Value |-> FieldDecoder(LastChar(contenttype), RawRecords(wire.buf)[i].Value)]]
        ELSE decoded.kind = "error" /\ decoded.vals = <<>>

\* C12 as amended: the same, the failure for every non-empty buffer; an
\* empty buffer gives no records and no error whatever the Content-Type.
C12_DispatchNonEmpty ==
    (Parsed /\ contenttype # <<>> /\ wire.buf # <<>>) =>
        IF LastChar(contenttype) \in {66, 85, 115}
        THEN /\ decoded.kind \in {"ok", "panic"}
             /\ decoded.kind = "panic" => LastChar(contenttype) = 85
             /\ decoded.kind = "ok" =>
                  decoded.vals =
                    [i \in 1..Len(RawRecords(wire.buf)) |->
                       [Key |-> FieldDecoder(LastChar(contenttype), RawRecords(wire.buf)[i].Key),
                        Value |-> FieldDecoder(LastChar(contenttype), RawRecords(wire.buf)[i].Value)]]
        ELSE decoded.kind = "error" /\ decoded.vals = <<>> /\ decoded.isnil

\* a base64 record was decoded under colenc=B to a field holding a byte
\* its wire form does not
C12_Witness ==
    /\ Parsed /\ contenttype = CTBase64
    /\ decoded.kind = "ok" /\ Len(decoded.vals) = 1
    /\ decoded.vals[1].Key = <<255>> /\ decoded.vals[1].Value = <<TAB>>

\* ------------------------------------------------------------------------
\* C13: for every Content-Type, the empty one included, DecodeValues on an
\* empty buffer returns the nil record list and no error.
\* ------------------------------------------------------------------------
C13_EmptyInput ==
    (Parsed /\ wire.buf = <<>>) =>
        decoded = [kind |-> "ok", vals |-> <<>>, isnil |-> TRUE]

\* an empty body under a Content-Type the protocol does not know
C13_Witness ==
    /\ Parsed /\ wire.buf = <<>> /\ contenttype = CTHtml
    /\ decoded.kind = "ok" /\ decoded.isnil

\* ------------------------------------------------------------------------
\* C19: (plain TSV) DecodeValues reads the buffer left to right, a key up to
\* the next TAB and then a value up to the next LF, and returns the records
\* in buffer order without error. A record is appended only if at least one
\* byte (the LF counted) was read after the key's TAB; bytes after the last
\* TAB that no LF ends are the value of one final record; when nothing
\* follows the last TAB, or the remaining bytes hold no TAB, they give no
\* record.
\* ------------------------------------------------------------------------
NoByte(buf, d, from, to) == \A i \in from..to : buf[i] # d

C19_TrailingInput ==
    (Parsed /\ wire.buf # <<>> /\ contenttype # <<>> /\ LastChar(contenttype) = 115) =>
        LET buf == wire.buf
            n == Len(wire.buf)
        IN /\ decoded.kind = "ok"
           /\ NoByte(buf, TAB, 1, n) => decoded.vals = <<>>
           /\ \A t \in 1..n :
                (buf[t] = TAB /\ NoByte(buf, TAB, 1, t - 1)) =>
                   /\ t = n => decoded.vals = <<>>
                   /\ (t < n /\ NoByte(buf, LF, t + 1, n)) =>
                         decoded.vals = <<[Key |-> Slice(buf, 1, t - 1),
                                           Value |-> Slice(buf, t + 1, n)]>>
                   /\ \A l \in (t + 1)..n :
                         (buf[l] = LF /\ NoByte(buf, LF, t + 1, l - 1)) =>
                            decoded.vals =
                              <<[Key |-> Slice(buf, 1, t - 1),
                                 Value |-> Slice(buf, t + 1, l - 1)]>>
                              \o DecodeValues(Slice(buf, l + 1, n), contenttype).vals

\* "\t\n\tA": a record with an empty key and an empty value, then a final
\* record whose value no LF ends
C19_Witness ==
    /\ Parsed /\ contenttype = CTIdentity
    /\ wire.buf = <<TAB, LF, TAB, 65>>
    /\ decoded.kind = "ok"
    /\ decoded.vals = <<[Key |-> <<>>, Value |-> <<>>], [Key |-> <<>>, Value |-> <<65>>]>>

\* ------------------------------------------------------------------------
\* C20 as stated: for every buffer and every Content-Type, DecodeValues
\* returns a record list or the unknown Content-Type Error; no input makes
\* it index out of range.
\* ------------------------------------------------------------------------
C20_NoCrash ==
    Parsed => decoded.kind \in {"ok", "error"}

\* ------------------------------------------------------------------------
\* Readings of a finished RPC call
\* ------------------------------------------------------------------------
\* the response was read to its end in time and DecodeValues decoded it
Decoded(p) ==
    /\ GotResponse(p) /\ ~call[p].resp.readErr /\ call[p].t = "stopped"
    /\ DecodeValues(call[p].resp.body, call[p].resp.ct).kind = "ok"
RespRecords(p) == DecodeValues(call[p].resp.body, call[p].resp.ct).vals
RpcOps == {"Count", "GetBulk", "GetBulkBytes", "setBulk", "removeBulk", "MatchPrefix"}

\* ------------------------------------------------------------------------
\* C14 as stated: newConn returns a Conn only after its probe of /rpc/void
\* got a response in time, read it without error and the status was 200.
\* ------------------------------------------------------------------------
C14_ProbeSucceeded ==
    \A p \in Callers :
        (Done(p) /\ call[p].op = "newConn" /\ call[p].result.err = "nil")
        => /\ GotResponse(p) /\ ~call[p].resp.readErr /\ call[p].t = "stopped"
           /\ call[p].resp.code = 200

\* ------------------------------------------------------------------------
\* C15: when the server answers a MatchPrefix with status 200 and records
\* whose keys are not empty, MatchPrefix returns the keys of exactly the
\* records whose key starts with '_', without the '_', in response order;
\* when no record is such, it returns no list and ErrSuccess.
\* ------------------------------------------------------------------------
StartsWithUnderscore(kv) == Len(kv.Key) > 0 /\ kv.Key[1] = UNDERSCORE

C15_Witness ==
    \E p \in Callers :
        /\ Done(p) /\ call[p].op = "MatchPrefix" /\ Decoded(p)
        /\ Len(RespRecords(p)) = 4
        /\ call[p].result.err = "nil"
        /\ call[p].result.list = <<<<66>>, <<>>, <<65>>>>

C16_ErrorShapes ==
    /\ ~crashed
    /\ \A p \in Callers :
          (Done(p) /\ call[p].op # "newConn") =>
              call[p].result.err \in
                  {"nil", "ErrNotFound", "ErrTimeout", "Error", "ErrSuccess", "DecodeError"}

\* ------------------------------------------------------------------------
\* C17: an RPC operation (Count, GetBulk, GetBulkBytes, setBulk, removeBulk,
\* MatchPrefix) whose response was read and decoded and whose status is not
\* 200 returns an Error whose message is the value of the first decoded
\* record with the key "ERROR", or "generic error" when there is none, and
\* no number and no list.
\* ------------------------------------------------------------------------
C17_RpcErrorExtraction ==
    \A p \in Callers :
        (Done(p) /\ call[p].op \in RpcOps /\ Decoded(p) /\ call[p].resp.code # 200)
        => LET m == RespRecords(p)
               errs == {i \in 1..Len(m) : m[i].Key = StrERROR}
           IN /\ call[p].result.err = "Error"
              /\ call[p].result.num = 0 /\ call[p].result.list = <<>>
              /\ errs = {} => call[p].result.body = StrGenericError
              /\ \A i \in errs :
                    (\A j \in errs : i <= j) => call[p].result.body = m[i].Value

\* a MatchPrefix answered 500 with num, ERROR "B", ERROR "A": the message
\* is "B"
C17_Witness ==
    \E p \in Callers :
        /\ Done(p) /\ call[p].op = "MatchPrefix" /\ Decoded(p)
        /\ call[p].resp.code = 500 /\ Len(RespRecords(p)) = 3
        /\ call[p].result.err = "Error" /\ call[p].result.body = <<66>>

\* ------------------------------------------------------------------------
\* C18: when roundTrip's last attempt ends with a transport error, that
\* attempt is the retry of a failed first attempt; roundTrip returns
\* ErrTimeout if the attempt's timer had fired by the time roundTrip stops
\* it and the transport error otherwise, returns no response, and leaves no
\* timer of the call pending.
\* ------------------------------------------------------------------------
C18_FinalFailure ==
    \A p \in Callers :
        (Done(p) /\ call[p].rterr)
        => /\ call[p].attempt = 2 /\ call[p].cause1 # "none"
           /\ call[p].result.err = (IF call[p].t = "fired" THEN "ErrTimeout"
                                     ELSE "transport")
           /\ call[p].t \in {"fired", "stopped"}
           /\ call[p].resp = NoResp
           /\ call[p].pending = 0

\* both attempts failed on the network and the second timer had fired
C18_Witness ==
    \E p \in Callers :
        /\ Done(p) /\ call[p].rterr /\ call[p].cause1 = "net"
        /\ call[p].t = "fired" /\ call[p].result.err = "ErrTimeout"

\* both attempts failed with both timers still running
C18_WitnessErr ==
    \E p \in Callers :
        /\ Done(p) /\ call[p].rterr /\ call[p].t = "stopped"
        /\ call[p].result.err = "transport" /\ call[p].pending = 0

\* ------------------------------------------------------------------------
\* C21 as stated: for every status-200 record list the server may send
\* (keys nobody asked for, keys without '_', repeated keys, an empty key),
\* read and decoded in time, GetBulkBytes returns normally and the key set
\* of the caller's map afterwards is a subset of the key set passed in.
\* ------------------------------------------------------------------------
C21_BulkGetArbitrary ==
    \A p \in Callers :
        (Done(p) /\ call[p].op = "GetBulkBytes" /\ Decoded(p)
            /\ call[p].resp.code = 200)
        => /\ call[p].result.err = "nil"
           /\ DOMAIN kmap[p] \subseteq DOMAIN call[p].keys0

\* ------------------------------------------------------------------------
\* C22 as stated: whenever GetBulk or GetBulkBytes returns an error
\* (transport failure, timeout, decode error, status other than 200), the
\* caller's map holds exactly the keys and values it held before the call.
\* ------------------------------------------------------------------------
C22_MapUnchangedOnError ==
    \A p \in Callers :
        (Done(p) /\ call[p].op \in BulkOps
            /\ call[p].result.err \notin {"nil", "panic"})
        => kmap[p] = call[p].keys0

====
